---- MODULE Spec2Model ----
(***************************************************************************)
(* Model of main.py: the Bank account factory, the Account hierarchy       *)
(* (NormalAccount, DebitAccount) and Customer.transfer.                    *)
(*                                                                         *)
(* Amounts are integers (the currency unit is arbitrary); a Transaction is *)
(* modelled by its transaction_type and amount, its timestamp is left out. *)
(* `output` holds the lines printed (or the exception raised) by the most  *)
(* recent call, which is the program's only feedback channel.              *)
(***************************************************************************)
EXTENDS Integers, Sequences, FiniteSets, TLC

\* ---- bounds of the model ------------------------------------------------
MaxAccounts == 2
MaxTransactions == 5
MaxSavingsTransactions == 2
MaxCustomers == 2

\* ---- inputs -------------------------------------------------------------
AccountTypes == {"Normal", "Debit", "Savings", "Checking"}
InitialBalances == {50}
Amounts == {-50, 0, 50}
\* Rates are multiples of 100, so that rate / 100 is a whole number.
Rates == {0, 100}
AccountNumbers == {10000}
OverdraftFlags == {TRUE, FALSE}
\* The directory draws account numbers, PINs and session tokens at random;
\* two values of each let two draws coincide or differ.
BankAccountNumbers == {10000, 99999}
\* The directory never looks at the class of an account: one class is enough
\* for its accounts.
BankAccountTypes == {"Normal"}
Pins == {"1000", "9999"}
\* A PIN no customer can have, next to the ones customers may have.
EnteredPins == Pins \cup {"0000"}
Tokens == {"100000", "999999"}

VARIABLES accounts, opening, output, customers, active_sessions, returned

vars == <<accounts, opening, output, customers, active_sessions, returned>>

\* Python's None, as the value a call returns.
None == "None"

\* ---- class Transaction --------------------------------------------------
Transaction(transaction_type, amount) ==
    [transaction_type |-> transaction_type, amount |-> amount]

\* ---- class Account ------------------------------------------------------
Account(account_type, account_number, balance) ==
    [account_type |-> account_type,
     account_number |-> account_number,
     balance |-> balance,
     is_locked |-> FALSE,
     transactions |-> <<>>]

\* The result of a call on one account: the account afterwards and the
\* lines it printed.
Result(account, printed) == [account |-> account, printed |-> printed]

\* deposit that records the transaction but leaves the balance as it was.
deposit_ForgetsBalance(self, amount) ==
    IF ~self.is_locked /\ amount > 0
    THEN Result([self EXCEPT !.transactions = Append(@, Transaction("Deposit", amount))],
                <<"Deposited">>)
    ELSE IF self.is_locked
    THEN Result(self, <<"Account is locked. Cannot perform transactions.">>)
    ELSE Result(self, <<"Invalid deposit amount.">>)

\* deposit that puts the new transaction in front of the history.
deposit_Prepends(self, amount) ==
    IF ~self.is_locked /\ amount > 0
    THEN Result([self EXCEPT !.balance = @ + amount,
                             !.transactions = <<Transaction("Deposit", amount)>> \o @],
                <<"Deposited">>)
    ELSE IF self.is_locked
    THEN Result(self, <<"Account is locked. Cannot perform transactions.">>)
    ELSE Result(self, <<"Invalid deposit amount.">>)

deposit(self, amount) ==
    IF ~self.is_locked /\ amount > 0
    THEN Result([self EXCEPT !.balance = @ + amount,
                             !.transactions = Append(@, Transaction("Deposit", amount))],
                <<"Deposited">>)
    ELSE IF self.is_locked
    THEN Result(self, <<"Account is locked. Cannot perform transactions.">>)
    ELSE Result(self, <<"Invalid deposit amount.">>)

get_balance(self) == self.balance

\* lock_account that flips the flag instead of setting it.
lock_account_Toggles(self) ==
    Result([self EXCEPT !.is_locked = ~@], <<"Account locked.">>)

lock_account(self) ==
    Result([self EXCEPT !.is_locked = TRUE], <<"Account locked.">>)

unlock_account(self) ==
    Result([self EXCEPT !.is_locked = FALSE], <<"Account unlocked.">>)

\* ---- class NormalAccount ------------------------------------------------
\* NormalAccount.withdraw with the overdraft ceiling excluded (< for <=).
NormalWithdraw_StrictCeiling(self, amount, overdraft_protection) ==
    IF ~self.is_locked
       /\ ((0 < amount /\ amount <= self.balance)
           \/ (overdraft_protection /\ amount < self.balance + 100))
    THEN Result([self EXCEPT !.balance = @ - amount,
                             !.transactions = Append(@, Transaction("Withdrawal", amount))],
                <<"Withdrew">>)
    ELSE IF self.is_locked
    THEN Result(self, <<"Account is locked. Cannot perform transactions.">>)
    ELSE Result(self, <<"Invalid withdrawal amount or insufficient funds.">>)

\* NormalAccount.withdraw with an overdraft ceiling of 150.
NormalWithdraw_WideCeiling(self, amount, overdraft_protection) ==
    IF ~self.is_locked
       /\ ((0 < amount /\ amount <= self.balance)
           \/ (overdraft_protection /\ amount <= self.balance + 150))
    THEN Result([self EXCEPT !.balance = @ - amount,
                             !.transactions = Append(@, Transaction("Withdrawal", amount))],
                <<"Withdrew">>)
    ELSE IF self.is_locked
    THEN Result(self, <<"Account is locked. Cannot perform transactions.">>)
    ELSE Result(self, <<"Invalid withdrawal amount or insufficient funds.">>)

NormalWithdraw(self, amount, overdraft_protection) ==
    IF ~self.is_locked
       /\ ((0 < amount /\ amount <= self.balance)
           \/ (overdraft_protection /\ amount <= self.balance + 100))
    THEN Result([self EXCEPT !.balance = @ - amount,
                             !.transactions = Append(@, Transaction("Withdrawal", amount))],
                <<"Withdrew">>)
    ELSE IF self.is_locked
    THEN Result(self, <<"Account is locked. Cannot perform transactions.">>)
    ELSE Result(self, <<"Invalid withdrawal amount or insufficient funds.">>)

\* NormalAccount.calculate_interest that accrues balance * rate / 100.
NormalCalculateInterest_Accrues(self, rate) ==
    IF ~self.is_locked
    THEN LET interest == (self.balance * rate) \div 100
         IN Result([self EXCEPT !.balance = @ + interest,
                                !.transactions = Append(@, Transaction("Interest", interest))],
                   <<"Interest added">>)
    ELSE Result(self, <<"Account is locked. Cannot calculate interest.">>)

NormalCalculateInterest(self, rate) ==
    Result(self, <<"Normal accounts do not earn interest.">>)

\* ---- class DebitAccount -------------------------------------------------
\* DebitAccount.withdraw that refuses to pay out the whole balance (< for <=).
DebitWithdraw_StrictBalance(self, amount, overdraft_protection) ==
    IF ~self.is_locked /\ 0 < amount /\ amount < self.balance
    THEN Result([self EXCEPT !.balance = @ - amount,
                             !.transactions = Append(@, Transaction("Withdrawal", amount))],
                <<"Withdrew">>)
    ELSE IF self.is_locked
    THEN Result(self, <<"Account is locked. Cannot perform transactions.">>)
    ELSE Result(self, <<"Invalid withdrawal amount or insufficient funds.">>)

DebitWithdraw(self, amount, overdraft_protection) ==
    IF ~self.is_locked /\ 0 < amount /\ amount <= self.balance
    THEN Result([self EXCEPT !.balance = @ - amount,
                             !.transactions = Append(@, Transaction("Withdrawal", amount))],
                <<"Withdrew">>)
    ELSE IF self.is_locked
    THEN Result(self, <<"Account is locked. Cannot perform transactions.">>)
    ELSE Result(self, <<"Invalid withdrawal amount or insufficient funds.">>)

DebitCalculateInterest(self, rate) ==
    Result(self, <<"Debit accounts do not earn interest.">>)

\* ---- dynamic dispatch on the account's class ----------------------------
\* Dispatch that sends every account to NormalAccount.withdraw.
withdraw_AlwaysNormal(self, amount, overdraft_protection) ==
    NormalWithdraw(self, amount, overdraft_protection)

withdraw(self, amount, overdraft_protection) ==
    IF self.account_type = "Normal"
    THEN NormalWithdraw(self, amount, overdraft_protection)
    ELSE DebitWithdraw(self, amount, overdraft_protection)

calculate_interest(self, rate) ==
    IF self.account_type = "Normal"
    THEN NormalCalculateInterest(self, rate)
    ELSE DebitCalculateInterest(self, rate)

\* ---- class SavingsAccount -----------------------------------------------
\* SavingsAccount does not derive from Account: it has its own copy of every
\* method, and `withdrawal` in place of `withdraw`.
SavingsAccount(account_number, balance) ==
    [account_type |-> "Savings",
     account_number |-> account_number,
     balance |-> balance,
     is_locked |-> FALSE,
     transactions |-> <<>>]

SavingsDeposit(self, amount) ==
    IF ~self.is_locked /\ amount > 0
    THEN Result([self EXCEPT !.balance = @ + amount,
                             !.transactions = Append(@, Transaction("Deposit", amount))],
                <<"Deposited">>)
    ELSE IF self.is_locked
    THEN Result(self, <<"Account is locked. Cannot perform transactions.">>)
    ELSE Result(self, <<"Invalid deposit amount.">>)

\* SavingsAccount.withdrawal that pays out when the account is not locked.
SavingsWithdrawal_WhenUnlocked(self, amount) ==
    IF ~self.is_locked
    THEN Result([self EXCEPT !.balance = @ - amount,
                             !.transactions = Append(@, Transaction("Withdrawal", amount))],
                <<"Withdrew">>)
    ELSE Result(self, <<"Account is locked. Cannot perform transactions.">>)

SavingsWithdrawal(self, amount) ==
    IF self.is_locked
    THEN Result([self EXCEPT !.balance = @ - amount,
                             !.transactions = Append(@, Transaction("Withdrawal", amount))],
                <<"Withdrew">>)
    ELSE IF self.is_locked
    THEN Result(self, <<"Account is locked. Cannot perform transactions.">>)
    ELSE Result(self, <<"Invalid withdrawal amount or insufficient funds.">>)

SavingsLockAccount(self) ==
    Result([self EXCEPT !.is_locked = TRUE], <<"Account locked.">>)

SavingsUnlockAccount(self) ==
    Result([self EXCEPT !.is_locked = FALSE], <<"Account unlocked.">>)

\* SavingsAccount.calculate_interest with NormalAccount's documented formula,
\* balance * rate / 100.
SavingsCalculateInterest_Product(self, rate) ==
    IF ~self.is_locked
    THEN LET interest == (self.balance * rate) \div 100
         IN Result([self EXCEPT !.balance = @ + interest,
                                !.transactions = Append(@, Transaction("Interest", interest))],
                   <<"Interest added">>)
    ELSE Result(self, <<"Account is locked. Cannot calculate interest.">>)

SavingsCalculateInterest(self, rate) ==
    IF ~self.is_locked
    THEN LET interest == self.balance + (rate \div 100)
         IN Result([self EXCEPT !.balance = @ + interest,
                                !.transactions = Append(@, Transaction("Interest", interest))],
                   <<"Interest added">>)
    ELSE Result(self, <<"Account is locked. Cannot calculate interest.">>)

\* ---- Bank.create_account ------------------------------------------------
\* The account created for a type, or NoAccount when the call raises.
NoAccount == [account_type |-> "None"]

create_account(account_type, account_number, initial_balance) ==
    IF account_type = "Normal"
    THEN Account("Normal", account_number, initial_balance)
    ELSE IF account_type = "Debit"
    THEN Account("Debit", account_number, initial_balance)
    ELSE NoAccount

\* ---- Customer.transfer --------------------------------------------------
\* s and r index the sender and the recipient in `accounts`; they may be the
\* same account, so every step of TransferSteps works on the result of the
\* step before.
\* The steps of a transfer once its checks have passed.
\* Transfer steps that record the Transfer in the sender's history only.
TransferSteps_NoRecipientEntry(accs, s, r, amount) ==
    LET a1 == [accs EXCEPT ![s] = withdraw(accs[s], amount, FALSE).account]
        a2 == [a1 EXCEPT ![r] = deposit(a1[r], amount).account]
        transaction == Transaction("Transfer", amount)
        a3 == [a2 EXCEPT ![s].transactions = Append(@, transaction)]
    IN a3

\* Transfer steps that deposit into the recipient as it was before the
\* withdrawal, which differs when sender and recipient are one account.
TransferSteps_StaleRecipient(accs, s, r, amount) ==
    LET a1 == [accs EXCEPT ![s] = withdraw(accs[s], amount, FALSE).account]
        a2 == [a1 EXCEPT ![r] = deposit(accs[r], amount).account]
        transaction == Transaction("Transfer", amount)
        a3 == [a2 EXCEPT ![s].transactions = Append(@, transaction)]
        a4 == [a3 EXCEPT ![r].transactions = Append(@, transaction)]
    IN a4

TransferSteps(accs, s, r, amount) ==
    LET a1 == [accs EXCEPT ![s] = withdraw(accs[s], amount, FALSE).account]
        a2 == [a1 EXCEPT ![r] = deposit(a1[r], amount).account]
        transaction == Transaction("Transfer", amount)
        a3 == [a2 EXCEPT ![s].transactions = Append(@, transaction)]
        a4 == [a3 EXCEPT ![r].transactions = Append(@, transaction)]
    IN a4

\* transfer without the test of the amount against the sender's balance.
TransferAccounts_NoFundsCheck(accs, s, r, amount) ==
    IF accs[s].is_locked \/ accs[r].is_locked
    THEN accs
    ELSE IF amount <= 0
    THEN accs
    ELSE TransferSteps(accs, s, r, amount)

\* transfer that tests the sender's lock only.
TransferAccounts_SenderLockOnly(accs, s, r, amount) ==
    IF accs[s].is_locked
    THEN accs
    ELSE IF amount <= 0 \/ amount > get_balance(accs[s])
    THEN accs
    ELSE TransferSteps(accs, s, r, amount)

TransferAccounts(accs, s, r, amount) ==
    IF accs[s].is_locked \/ accs[r].is_locked
    THEN accs
    ELSE IF amount <= 0 \/ amount > get_balance(accs[s])
    THEN accs
    ELSE TransferSteps(accs, s, r, amount)

TransferPrinted(accs, s, r, amount) ==
    IF accs[s].is_locked \/ accs[r].is_locked
    THEN <<"One or more accounts involved in the transfer are locked. Cannot perform the transfer.">>
    ELSE IF amount <= 0 \/ amount > get_balance(accs[s])
    THEN <<"Invalid transfer amount or insufficient funds.">>
    ELSE LET a1 == [accs EXCEPT ![s] = withdraw(accs[s], amount, FALSE).account]
         IN withdraw(accs[s], amount, FALSE).printed
            \o deposit(a1[r], amount).printed
            \o <<"Transferred">>

\* ---- class Customer -----------------------------------------------------
\* `accounts` lists the customer's accounts by their index in the variable
\* `accounts`; a customer is referred to by its index in `customers`.
Customer(customer_id, owned, pin) ==
    [customer_id |-> customer_id, accounts |-> owned, pin |-> pin]

\* authenticate that accepts every PIN.
authenticate_AcceptsAll(self, entered_pin) ==
    TRUE

authenticate(self, entered_pin) ==
    entered_pin = self.pin

\* ---- class Bank ---------------------------------------------------------
\* The first customer, in registration order, that accepts the PIN; 0 when
\* the loop ends without one.
RECURSIVE FirstAuthenticated(_, _, _)
FirstAuthenticated(custs, pin, c) ==
    IF c > Len(custs) THEN 0
    ELSE IF authenticate(custs[c], pin) THEN c
    ELSE FirstAuthenticated(custs, pin, c + 1)

\* active_sessions[session_token] = customer
Bind(sessions, session_token, customer) ==
    [t \in DOMAIN sessions \cup {session_token} |->
        IF t = session_token THEN customer ELSE sessions[t]]

\* del active_sessions[session_token]
Unbind(sessions, session_token) ==
    [t \in DOMAIN sessions \ {session_token} |-> sessions[t]]

OwnsNumber(accs, customer, account_number) ==
    \E k \in 1..Len(customer.accounts) :
        accs[customer.accounts[k]].account_number = account_number

\* The first customer, in registration order, with an account of that
\* number; 0 when the loops end without one.
RECURSIVE FirstOwner(_, _, _, _)
FirstOwner(accs, custs, account_number, c) ==
    IF c > Len(custs) THEN 0
    ELSE IF OwnsNumber(accs, custs[c], account_number) THEN c
    ELSE FirstOwner(accs, custs, account_number, c + 1)

\* The accounts some registered customer holds.
Owned ==
    UNION {{customers[c].accounts[k] : k \in 1..Len(customers[c].accounts)} :
              c \in 1..Len(customers)}

RECURSIVE AsList(_)
AsList(ids) ==
    IF ids = {} THEN <<>>
    ELSE LET least == CHOOSE i \in ids : \A j \in ids : i <= j
         IN <<least>> \o AsList(ids \ {least})

\* ---- state --------------------------------------------------------------
RECURSIVE SumLen(_, _)
SumLen(accs, n) ==
    IF n = 0 THEN 0 ELSE Len(accs[n].transactions) + SumLen(accs, n - 1)

TotalTransactions(accs) == SumLen(accs, Len(accs))

Ids == 1..Len(accounts)

Init ==
    /\ accounts = <<>>
    /\ opening = <<>>
    /\ output = <<>>
    /\ customers = <<>>
    /\ active_sessions = [token \in {} |-> None]
    /\ returned = None

\* ---- actions ------------------------------------------------------------
CreateAccount(account_type, account_number, initial_balance) ==
    LET account == create_account(account_type, account_number, initial_balance)
    IN IF account = NoAccount
       THEN /\ output' = <<"ValueError: Invalid account type.">>
            /\ returned' = None
            /\ UNCHANGED <<accounts, opening, customers, active_sessions>>
       ELSE /\ Len(accounts) < MaxAccounts
            /\ accounts' = Append(accounts, account)
            /\ opening' = Append(opening, initial_balance)
            /\ output' = <<>>
            /\ returned' = None
            /\ UNCHANGED <<customers, active_sessions>>

Deposit(i, amount) ==
    /\ output' = deposit(accounts[i], amount).printed
    /\ accounts' = [accounts EXCEPT ![i] = deposit(accounts[i], amount).account]
    /\ TotalTransactions(accounts') <= MaxTransactions
    /\ returned' = None
    /\ UNCHANGED <<opening, customers, active_sessions>>

Withdraw(i, amount, overdraft_protection) ==
    /\ output' = withdraw(accounts[i], amount, overdraft_protection).printed
    /\ accounts' = [accounts EXCEPT ![i] = withdraw(accounts[i], amount, overdraft_protection).account]
    /\ TotalTransactions(accounts') <= MaxTransactions
    /\ returned' = None
    /\ UNCHANGED <<opening, customers, active_sessions>>

CalculateInterest(i, rate) ==
    /\ output' = calculate_interest(accounts[i], rate).printed
    /\ accounts' = [accounts EXCEPT ![i] = calculate_interest(accounts[i], rate).account]
    /\ TotalTransactions(accounts') <= MaxTransactions
    /\ returned' = None
    /\ UNCHANGED <<opening, customers, active_sessions>>

LockAccount(i) ==
    /\ output' = lock_account(accounts[i]).printed
    /\ accounts' = [accounts EXCEPT ![i] = lock_account(accounts[i]).account]
    /\ returned' = None
    /\ UNCHANGED <<opening, customers, active_sessions>>

UnlockAccount(i) ==
    /\ output' = unlock_account(accounts[i]).printed
    /\ accounts' = [accounts EXCEPT ![i] = unlock_account(accounts[i]).account]
    /\ returned' = None
    /\ UNCHANGED <<opening, customers, active_sessions>>

Transfer(s, r, amount) ==
    /\ output' = TransferPrinted(accounts, s, r, amount)
    /\ accounts' = TransferAccounts(accounts, s, r, amount)
    /\ TotalTransactions(accounts') <= MaxTransactions
    /\ returned' = None
    /\ UNCHANGED <<opening, customers, active_sessions>>

Next ==
    \/ \E t \in AccountTypes, n \in AccountNumbers, b \in InitialBalances :
          CreateAccount(t, n, b)
    \/ \E i \in Ids, a \in Amounts : Deposit(i, a)
    \/ \E i \in Ids, a \in Amounts, o \in OverdraftFlags : Withdraw(i, a, o)
    \/ \E i \in Ids, rate \in Rates : CalculateInterest(i, rate)
    \/ \E i \in Ids : LockAccount(i)
    \/ \E i \in Ids : UnlockAccount(i)
    \/ \E s \in Ids, r \in Ids, a \in Amounts : Transfer(s, r, a)

Spec == Init /\ [][Next]_vars

\* ---- SavingsAccount objects, built with the class itself ----------------
OpenSavings(account_number, initial_balance) ==
    /\ Len(accounts) < MaxAccounts
    /\ output' = <<>>
    /\ accounts' = Append(accounts, SavingsAccount(account_number, initial_balance))
    /\ opening' = Append(opening, initial_balance)
    /\ returned' = None
    /\ UNCHANGED <<customers, active_sessions>>

DepositSavings(i, amount) ==
    /\ output' = SavingsDeposit(accounts[i], amount).printed
    /\ accounts' = [accounts EXCEPT ![i] = SavingsDeposit(accounts[i], amount).account]
    /\ TotalTransactions(accounts') <= MaxSavingsTransactions
    /\ returned' = None
    /\ UNCHANGED <<opening, customers, active_sessions>>

WithdrawalSavings(i, amount) ==
    /\ output' = SavingsWithdrawal(accounts[i], amount).printed
    /\ accounts' = [accounts EXCEPT ![i] = SavingsWithdrawal(accounts[i], amount).account]
    /\ TotalTransactions(accounts') <= MaxSavingsTransactions
    /\ returned' = None
    /\ UNCHANGED <<opening, customers, active_sessions>>

CalculateInterestSavings(i, rate) ==
    /\ output' = SavingsCalculateInterest(accounts[i], rate).printed
    /\ accounts' = [accounts EXCEPT ![i] = SavingsCalculateInterest(accounts[i], rate).account]
    /\ TotalTransactions(accounts') <= MaxSavingsTransactions
    /\ returned' = None
    /\ UNCHANGED <<opening, customers, active_sessions>>

LockSavings(i) ==
    /\ output' = SavingsLockAccount(accounts[i]).printed
    /\ accounts' = [accounts EXCEPT ![i] = SavingsLockAccount(accounts[i]).account]
    /\ returned' = None
    /\ UNCHANGED <<opening, customers, active_sessions>>

UnlockSavings(i) ==
    /\ output' = SavingsUnlockAccount(accounts[i]).printed
    /\ accounts' = [accounts EXCEPT ![i] = SavingsUnlockAccount(accounts[i]).account]
    /\ returned' = None
    /\ UNCHANGED <<opening, customers, active_sessions>>

NextSavings ==
    \/ \E n \in AccountNumbers, b \in InitialBalances : OpenSavings(n, b)
    \/ \E i \in Ids, a \in Amounts : DepositSavings(i, a)
    \/ \E i \in Ids, a \in Amounts : WithdrawalSavings(i, a)
    \/ \E i \in Ids, rate \in Rates : CalculateInterestSavings(i, rate)
    \/ \E i \in Ids : LockSavings(i)
    \/ \E i \in Ids : UnlockSavings(i)

SpecSavings == Init /\ [][NextSavings]_vars

\* ---- the directory: customers, sessions, lookup --------------------------
\* Customer(customer_id, accounts) followed by bank.add_customer(customer),
\* as the script does: ids count up from 1, each customer gets accounts no
\* other customer holds, and the PIN is drawn at random.
AddCustomer(owned, pin) ==
    /\ Len(customers) < MaxCustomers
    /\ output' = <<>>
    /\ customers' = Append(customers, Customer(Len(customers) + 1, AsList(owned), pin))
    /\ returned' = None
    /\ UNCHANGED <<accounts, opening, active_sessions>>

\* session_token is the token the call draws at random when a customer
\* accepts the PIN.
AuthenticateCustomer(pin, session_token) ==
    LET customer == FirstAuthenticated(customers, pin, 1)
    IN /\ output' = <<>>
       /\ IF customer # 0
          THEN /\ active_sessions' = Bind(active_sessions, session_token, customer)
               /\ returned' = session_token
          ELSE /\ active_sessions' = active_sessions
               /\ returned' = None
       /\ UNCHANGED <<accounts, opening, customers>>

EndSession(session_token) ==
    /\ IF session_token \in DOMAIN active_sessions
       THEN /\ output' = <<"Session ended successfully.">>
            /\ active_sessions' = Unbind(active_sessions, session_token)
       ELSE /\ output' = <<"Invalid session token.">>
            /\ active_sessions' = active_sessions
    /\ returned' = None
    /\ UNCHANGED <<accounts, opening, customers>>

\* The customer found is returned by its index, written as a string like
\* every other value a call returns.
GetCustomer(account_number) ==
    LET customer == FirstOwner(accounts, customers, account_number, 1)
    IN /\ output' = <<>>
       /\ returned' = IF customer # 0 THEN ToString(customer) ELSE None
       /\ UNCHANGED <<accounts, opening, customers, active_sessions>>

NextBank ==
    \/ \E t \in BankAccountTypes, n \in BankAccountNumbers, b \in InitialBalances :
          CreateAccount(t, n, b)
    \/ \E owned \in SUBSET (Ids \ Owned), pin \in Pins : AddCustomer(owned, pin)
    \/ \E pin \in EnteredPins, t \in Tokens : AuthenticateCustomer(pin, t)
    \/ \E t \in Tokens : EndSession(t)
    \/ \E n \in BankAccountNumbers : GetCustomer(n)

SpecBank == Init /\ [][NextBank]_vars

\* ---- properties ---------------------------------------------------------
Signed(t) ==
    IF t.transaction_type \in {"Deposit", "Interest"} THEN t.amount
    ELSE IF t.transaction_type = "Withdrawal" THEN 0 - t.amount
    ELSE 0

RECURSIVE SignedSum(_)
SignedSum(transactions) ==
    IF transactions = <<>> THEN 0
    ELSE Signed(Head(transactions)) + SignedSum(Tail(transactions))

HasType(transactions, type) ==
    \E k \in 1..Len(transactions) : transactions[k].transaction_type = type

TransferLockedMsg ==
    <<"One or more accounts involved in the transfer are locked. Cannot perform the transfer.">>

SameBalanceAndHistory(before, after) ==
    /\ after.balance = before.balance
    /\ after.transactions = before.transactions

\* C1: in every reachable state each account's balance equals its initial
\* balance plus the signed sum of its history (Deposit and Interest positive,
\* Withdrawal negative, Transfer entries not counted).
C1_BalanceIsSignedSum ==
    \A i \in Ids :
        accounts[i].balance = opening[i] + SignedSum(accounts[i].transactions)

\* An account that received a transfer: its history holds a Deposit and a
\* Transfer and its balance differs from the opening balance.
C1_Witness ==
    \E i \in Ids :
        /\ HasType(accounts[i].transactions, "Transfer")
        /\ HasType(accounts[i].transactions, "Deposit")
        /\ accounts[i].balance # opening[i]

\* C2: a transfer that fails an eligibility check (sender locked, recipient
\* locked, amount <= 0, amount > sender balance) leaves the balance and the
\* history of the sender and of the recipient as they were.
C2_FailedTransferNoEffect ==
    [][\A s \in Ids, r \in Ids, a \in Amounts :
          (/\ \/ accounts[s].is_locked
              \/ accounts[r].is_locked
              \/ a <= 0
              \/ a > accounts[s].balance
           /\ Transfer(s, r, a))
          => /\ SameBalanceAndHistory(accounts[s], accounts'[s])
             /\ SameBalanceAndHistory(accounts[r], accounts'[r])]_vars

\* A transfer was refused for a locked recipient although the unlocked
\* sender could have paid.
C2_Witness ==
    /\ output = TransferLockedMsg
    /\ \E s \in Ids, r \in Ids :
          /\ ~accounts[s].is_locked
          /\ accounts[r].is_locked
          /\ accounts[s].balance >= 50

\* C3: between two distinct unlocked accounts, a transfer of an amount with
\* 0 < amount <= sender balance debits the sender and credits the recipient
\* by exactly the amount; and no transfer changes one of the two balances
\* without the other.
C3_TransferMovesAmount ==
    [][\A s \in Ids, r \in Ids, a \in Amounts :
          (s # r /\ Transfer(s, r, a))
          => IF /\ ~accounts[s].is_locked
                /\ ~accounts[r].is_locked
                /\ 0 < a
                /\ a <= accounts[s].balance
             THEN /\ accounts'[s].balance = accounts[s].balance - a
                  /\ accounts'[r].balance = accounts[r].balance + a
             ELSE /\ accounts'[s].balance = accounts[s].balance
                  /\ accounts'[r].balance = accounts[r].balance]_vars

\* A transfer between two distinct accounts has completed, the sender being a
\* Debit account that paid out its whole balance.
C3_Witness ==
    /\ output = <<"Withdrew", "Deposited", "Transferred">>
    /\ \E s \in Ids, r \in Ids :
          /\ s # r
          /\ accounts[s].account_type = "Debit"
          /\ accounts[s].balance = 0
          /\ accounts[s].transactions
                = <<Transaction("Withdrawal", 50), Transaction("Transfer", 50)>>
          /\ accounts[r].transactions
                = <<Transaction("Deposit", 50), Transaction("Transfer", 50)>>

\* C4 (as claimed): for every amount a <= 0, every account kind, lock state
\* and overdraft flag, deposit(a) and withdraw(a, flag) change neither the
\* balance nor the history.
C4_NonPositiveAmountNoOp ==
    [][\A i \in Ids, a \in Amounts, o \in OverdraftFlags :
          (a <= 0 /\ (Deposit(i, a) \/ Withdraw(i, a, o)))
          => SameBalanceAndHistory(accounts[i], accounts'[i])]_vars

\* C5: on an unlocked Normal account a withdrawal of more than the balance
\* succeeds exactly when overdraft protection is requested and
\* amount <= balance + 100: it then lowers the balance by the amount and
\* appends a Withdrawal, and otherwise changes nothing.
C5_NormalOverdraftCeiling ==
    [][\A i \in Ids, a \in Amounts, o \in OverdraftFlags :
          (/\ accounts[i].account_type = "Normal"
           /\ ~accounts[i].is_locked
           /\ a > accounts[i].balance
           /\ Withdraw(i, a, o))
          => IF o /\ a <= accounts[i].balance + 100
             THEN accounts'[i] =
                    [accounts[i] EXCEPT
                       !.balance = @ - a,
                       !.transactions = Append(@, Transaction("Withdrawal", a))]
             ELSE accounts'[i] = accounts[i]]_vars

\* A Normal account sits at the overdraft ceiling (100 below zero) and its
\* last call, a further withdrawal, was refused.
C5_Witness ==
    /\ output = <<"Invalid withdrawal amount or insufficient funds.">>
    /\ \E i \in Ids :
          /\ accounts[i].account_type = "Normal"
          /\ ~accounts[i].is_locked
          /\ accounts[i].balance = -100

\* C6: on a Debit account a withdrawal, with either value of the overdraft
\* flag, succeeds exactly when the account is unlocked and
\* 0 < amount <= balance; the flag changes neither outcome.
C6_DebitIgnoresOverdraft ==
    [][\A i \in Ids, a \in Amounts, o \in OverdraftFlags :
          (accounts[i].account_type = "Debit" /\ Withdraw(i, a, o))
          => /\ IF ~accounts[i].is_locked /\ 0 < a /\ a <= accounts[i].balance
                THEN accounts'[i] =
                       [accounts[i] EXCEPT
                          !.balance = @ - a,
                          !.transactions = Append(@, Transaction("Withdrawal", a))]
                ELSE accounts'[i] = accounts[i]
             /\ withdraw(accounts[i], a, TRUE) = withdraw(accounts[i], a, FALSE)]_vars

\* A Debit account at balance zero was asked for more than it holds and
\* refused.
C6_Witness ==
    /\ output = <<"Invalid withdrawal amount or insufficient funds.">>
    /\ \E i \in Ids :
          /\ accounts[i].account_type = "Debit"
          /\ ~accounts[i].is_locked
          /\ accounts[i].balance = 0
          /\ accounts[i].transactions = <<Transaction("Withdrawal", 50)>>

\* C7 (as claimed): calculateInterest(rate) on an unlocked Normal account
\* raises the balance by balance * rate / 100 and appends one Interest
\* transaction of that amount.
C7_NormalInterestAccrues ==
    [][\A i \in Ids, rate \in Rates :
          (/\ accounts[i].account_type = "Normal"
           /\ ~accounts[i].is_locked
           /\ CalculateInterest(i, rate))
          => LET interest == (accounts[i].balance * rate) \div 100
             IN accounts'[i] =
                  [accounts[i] EXCEPT
                     !.balance = @ + interest,
                     !.transactions = Append(@, Transaction("Interest", interest))]]_vars

\* C7 (amended): calculateInterest(rate) on an unlocked Normal account
\* changes neither the balance nor the history of any account and reports
\* that Normal accounts do not earn interest.
C7_NormalInterestNoOp ==
    [][\A i \in Ids, rate \in Rates :
          (/\ accounts[i].account_type = "Normal"
           /\ ~accounts[i].is_locked
           /\ CalculateInterest(i, rate))
          => /\ accounts' = accounts
             /\ output' = <<"Normal accounts do not earn interest.">>]_vars

\* Interest was requested on an unlocked Normal account with a positive
\* balance.
C7_Witness ==
    /\ output = <<"Normal accounts do not earn interest.">>
    /\ \E i \in Ids :
          /\ accounts[i].account_type = "Normal"
          /\ ~accounts[i].is_locked
          /\ accounts[i].balance > 0

\* C8: while an account is locked no call (deposit, withdraw,
\* calculateInterest, transfer as sender or recipient, with any arguments)
\* changes its balance or its history.
C8_LockedAccountFrozen ==
    [][\A i \in Ids :
          accounts[i].is_locked
          => SameBalanceAndHistory(accounts[i], accounts'[i])]_vars

\* A deposit or withdrawal was refused because the account is locked.
C8_Witness ==
    /\ output = <<"Account is locked. Cannot perform transactions.">>
    /\ \E i \in Ids :
          /\ accounts[i].is_locked
          /\ accounts[i].transactions # <<>>

\* C9: lockAccount sets the locked flag and unlockAccount clears it, whatever
\* the flag was; neither changes anything else of the account or any other
\* account, and repeating the call changes nothing more.
C9_LockUnlockIdempotent ==
    [][\A i \in Ids :
          /\ LockAccount(i)
             => /\ accounts' = [accounts EXCEPT ![i].is_locked = TRUE]
                /\ lock_account(accounts'[i]).account = accounts'[i]
          /\ UnlockAccount(i)
             => /\ accounts' = [accounts EXCEPT ![i].is_locked = FALSE]
                /\ unlock_account(accounts'[i]).account = accounts'[i]]_vars

\* An account with a history has just been locked.
C9_Witness ==
    /\ output = <<"Account locked.">>
    /\ \E i \in Ids :
          /\ accounts[i].is_locked
          /\ accounts[i].transactions # <<>>

\* C10 (as claimed): createAccount returns an unlocked account of the
\* requested kind with the given initial balance and an empty history for
\* each of Normal, Debit and Savings, and raises, creating nothing, exactly
\* for any other kind.
C10_CreateAccountThreeKinds ==
    [][\A t \in AccountTypes, n \in AccountNumbers, b \in InitialBalances :
          CreateAccount(t, n, b)
          => IF t \in {"Normal", "Debit", "Savings"}
             THEN accounts' = Append(accounts, Account(t, n, b))
             ELSE /\ accounts' = accounts
                  /\ output' = <<"ValueError: Invalid account type.">>]_vars

\* C13 (as claimed): every transaction in every account's history has a
\* non-negative amount.
C13_AmountsNonNegative ==
    \A i \in Ids :
        \A k \in 1..Len(accounts[i].transactions) :
            accounts[i].transactions[k].amount >= 0

\* C14: a successful transfer of amount between two distinct accounts
\* extends the sender's history by a Withdrawal then a Transfer of amount and
\* the recipient's by a Deposit then a Transfer of amount, the withdrawal
\* being reported before the deposit.
C14_TransferHistoryEntries ==
    [][\A s \in Ids, r \in Ids, a \in Amounts :
          (/\ s # r
           /\ ~accounts[s].is_locked
           /\ ~accounts[r].is_locked
           /\ 0 < a
           /\ a <= accounts[s].balance
           /\ Transfer(s, r, a))
          => /\ accounts'[s].transactions =
                  accounts[s].transactions
                     \o <<Transaction("Withdrawal", a), Transaction("Transfer", a)>>
             /\ accounts'[r].transactions =
                  accounts[r].transactions
                     \o <<Transaction("Deposit", a), Transaction("Transfer", a)>>
             /\ output' = <<"Withdrew", "Deposited", "Transferred">>]_vars

\* A transfer has completed from an account that had a deposit before it.
C14_Witness ==
    /\ output = <<"Withdrew", "Deposited", "Transferred">>
    /\ \E s \in Ids, r \in Ids :
          /\ s # r
          /\ accounts[s].transactions
                = <<Transaction("Deposit", 50), Transaction("Withdrawal", 50),
                    Transaction("Transfer", 50)>>
          /\ accounts[r].transactions
                = <<Transaction("Deposit", 50), Transaction("Transfer", 50)>>

IsPrefix(p, q) ==
    /\ Len(p) <= Len(q)
    /\ SubSeq(q, 1, Len(p)) = p

\* C15: every call, successful or not, leaves each account's previous
\* history as a prefix of its new history.
C15_HistoryAppendOnly ==
    [][\A i \in Ids :
          IsPrefix(accounts[i].transactions, accounts'[i].transactions)]_vars

\* A deposit has just been added to a history that already held two
\* entries.
C15_Witness ==
    /\ output = <<"Deposited">>
    /\ \E i \in Ids :
          /\ Len(accounts[i].transactions) >= 3
          /\ accounts[i].transactions[Len(accounts[i].transactions)].transaction_type
                = "Deposit"

\* C18: with non-negative opening balances, a Debit account's balance is
\* never below 0 and a Normal account's never below -100.
C18_BalanceFloors ==
    \A i \in Ids :
        opening[i] >= 0
        => /\ accounts[i].account_type = "Debit" => accounts[i].balance >= 0
           /\ accounts[i].account_type = "Normal" => accounts[i].balance >= -100

\* A Normal account sits at -100 and a Debit account that paid out sits
\* at 0.
C18_Witness ==
    /\ \E i \in Ids :
          /\ accounts[i].account_type = "Normal"
          /\ opening[i] >= 0
          /\ accounts[i].balance = -100
    /\ \E j \in Ids :
          /\ accounts[j].account_type = "Debit"
          /\ accounts[j].balance = 0
          /\ accounts[j].transactions # <<>>

RECURSIVE SumBalances(_, _)
SumBalances(accs, n) ==
    IF n = 0 THEN 0 ELSE accs[n].balance + SumBalances(accs, n - 1)

\* C19: a transfer, successful or not, also from an account to itself,
\* changes no account other than its sender and recipient, changes no lock
\* flag, and leaves the sum of all balances as it was.  (A transfer that
\* leaves `accounts` as it was satisfies this as it stands, so only the
\* steps that change `accounts` are compared.)
C19_TransferFrame ==
    [][\A s \in Ids, r \in Ids, a \in Amounts :
          (accounts' # accounts /\ Transfer(s, r, a))
          => /\ Len(accounts') = Len(accounts)
             /\ \A i \in Ids \ {s, r} : accounts'[i] = accounts[i]
             /\ \A i \in Ids : accounts'[i].is_locked = accounts[i].is_locked
             /\ SumBalances(accounts', Len(accounts'))
                   = SumBalances(accounts, Len(accounts))]_vars

\* An account has transferred to itself while another account exists.
C19_Witness ==
    /\ output = <<"Withdrew", "Deposited", "Transferred">>
    /\ \E i \in Ids, j \in Ids :
          /\ i # j
          /\ accounts[i].transactions
                = <<Transaction("Withdrawal", 50), Transaction("Deposit", 50),
                    Transaction("Transfer", 50), Transaction("Transfer", 50)>>
          /\ accounts[j].transactions = <<>>

\* C16 (as claimed): a Savings withdrawal lowers the balance by the amount
\* and appends a Withdrawal in both lock states, with no test of the amount.
C16_SavingsWithdrawalUnconditional ==
    [][\A i \in Ids, a \in Amounts :
          WithdrawalSavings(i, a)
          => accounts'[i] =
               [accounts[i] EXCEPT
                  !.balance = @ - a,
                  !.transactions = Append(@, Transaction("Withdrawal", a))]]_vars

\* C16 (amended): on a locked Savings account a withdrawal lowers the
\* balance by the amount and appends a Withdrawal, with no test of the
\* amount against the balance; on an unlocked one it changes nothing and
\* reports an invalid withdrawal.
C16_SavingsWithdrawalOnlyWhenLocked ==
    [][\A i \in Ids, a \in Amounts :
          WithdrawalSavings(i, a)
          => IF accounts[i].is_locked
             THEN accounts' =
                    [accounts EXCEPT
                       ![i].balance = @ - a,
                       ![i].transactions = Append(@, Transaction("Withdrawal", a))]
             ELSE /\ accounts' = accounts
                  /\ output' = <<"Invalid withdrawal amount or insufficient funds.">>]_vars

\* A locked Savings account has paid out more than it held.
C16_Witness ==
    /\ output = <<"Withdrew">>
    /\ \E i \in Ids :
          /\ accounts[i].account_type = "Savings"
          /\ accounts[i].is_locked
          /\ accounts[i].balance < 0
          /\ accounts[i].transactions[Len(accounts[i].transactions)]
                = Transaction("Withdrawal", 50)

\* C17: calculateInterest(rate) on an unlocked Savings account adds
\* balance + rate/100 to the balance (which becomes 2 * balance + rate/100)
\* and appends one Interest transaction of that amount; on a locked one it
\* changes neither balance nor history.
C17_SavingsInterestFormula ==
    [][\A i \in Ids, rate \in Rates :
          CalculateInterestSavings(i, rate)
          => IF ~accounts[i].is_locked
             THEN accounts' =
                    [accounts EXCEPT
                       ![i].balance = 2 * accounts[i].balance + (rate \div 100),
                       ![i].transactions =
                          Append(@, Transaction("Interest",
                                                accounts[i].balance + (rate \div 100)))]
             ELSE accounts' = accounts]_vars

\* Interest at rate 100 was added to a Savings account that held 50.
C17_Witness ==
    /\ output = <<"Interest added">>
    /\ \E i \in Ids :
          /\ accounts[i].account_type = "Savings"
          /\ accounts[i].balance = 101
          /\ accounts[i].transactions = <<Transaction("Interest", 51)>>

\* C11: authenticateCustomer returns no token and leaves the session table
\* (and the customers) as they were when no registered customer has the
\* presented PIN; when it returns a token, the table binds that token to a
\* customer whose stored PIN is the presented one.  A failed attempt changes
\* nothing a later attempt depends on.
C11_SessionOnlyOnPinMatch ==
    [][\A pin \in EnteredPins, t \in Tokens :
          AuthenticateCustomer(pin, t)
          => IF \A c \in 1..Len(customers) : customers[c].pin # pin
             THEN /\ returned' = None
                  /\ active_sessions' = active_sessions
                  /\ customers' = customers
             ELSE /\ returned' \in DOMAIN active_sessions'
                  /\ customers'[active_sessions'[returned']].pin = pin]_vars

\* The second of two customers with different PINs has just been given a
\* session, after the first one.
C11_Witness ==
    /\ Len(customers) = 2
    /\ customers[1].pin # customers[2].pin
    /\ returned \in DOMAIN active_sessions
    /\ active_sessions[returned] = 2
    /\ \E t \in DOMAIN active_sessions : active_sessions[t] = 1

\* C12 (as claimed): no two accounts share an account number, so an account
\* number belongs to at most one customer.
C12_AccountNumbersUnique ==
    /\ \A i \in Ids, j \in Ids :
          i # j => accounts[i].account_number # accounts[j].account_number
    /\ \A n \in BankAccountNumbers :
          Cardinality({c \in 1..Len(customers) :
                          OwnsNumber(accounts, customers[c], n)}) <= 1

\* C20 (as claimed): an active token stays bound to its customer through
\* every authenticate_customer call; end_session(t) removes exactly t, and
\* changes nothing when t is not active.
C20_TokenStaysBound ==
    [][/\ \A pin \in EnteredPins, t \in Tokens :
             AuthenticateCustomer(pin, t)
             => \A u \in DOMAIN active_sessions :
                   /\ u \in DOMAIN active_sessions'
                   /\ active_sessions'[u] = active_sessions[u]
       /\ \A t \in Tokens :
             EndSession(t)
             => IF t \in DOMAIN active_sessions
                THEN active_sessions' =
                       [u \in DOMAIN active_sessions \ {t} |-> active_sessions[u]]
                ELSE active_sessions' = active_sessions]_vars

====
